---- MODULE Spec2Model ----
(***************************************************************************)
(* A model of salt/runners/manage.py: the runner functions status, up,     *)
(* down, versions and key_regen, the minion fleet they probe and the       *)
(* master's pki directory they read and purge.                             *)
(*                                                                         *)
(* Strings are sequences of ASCII codes, so that str.split, '-'.join, cmp  *)
(* and sorted are computed byte by byte as Python 2 computes them.         *)
(***************************************************************************)
EXTENDS Integers, Sequences, FiniteSets, TLC

\* Number of minion ids of the fleet (the first MaxAgents of AgentNames).
MaxAgents == 2

\* Number of minion ids of the version audit (the first of AuditNames).
MaxAuditAgents == 3

---------------------------------------------------------------------------
\* Strings

Ord ==
    ("-" :> 45) @@ ("." :> 46) @@
    ("0" :> 48) @@ ("1" :> 49) @@ ("2" :> 50) @@ ("3" :> 51) @@ ("4" :> 52) @@
    ("5" :> 53) @@ ("6" :> 54) @@ ("7" :> 55) @@ ("8" :> 56) @@ ("9" :> 57) @@
    ("a" :> 97) @@ ("b" :> 98) @@ ("c" :> 99) @@ ("e" :> 101) @@ ("g" :> 103) @@
    ("m" :> 109) @@ ("p" :> 112) @@ ("r" :> 114) @@ ("s" :> 115) @@
    ("t" :> 116) @@ ("w" :> 119) @@ ("x" :> 120) @@ ("y" :> 121) @@ ("z" :> 122)

RECURSIVE Str(_)
Str(t) == IF t = <<>> THEN <<>> ELSE <<Ord[Head(t)]>> \o Str(Tail(t))

ToSet(s) == {s[i] : i \in DOMAIN s}

\* Every order in which the elements of a set or the keys of a dict may be
\* iterated.
Perms(S) ==
    {f \in [1..Cardinality(S) -> S] : \A i, j \in 1..Cardinality(S) : f[i] = f[j] => i = j}

\* Python 2 cmp() on two str values: byte-wise, a proper prefix is smaller.
RECURSIVE cmp(_, _)
cmp(a, b) ==
    IF a = <<>> /\ b = <<>> THEN 0
    ELSE IF a = <<>> THEN -1
    ELSE IF b = <<>> THEN 1
    ELSE IF Head(a) < Head(b) THEN -1
    ELSE IF Head(a) > Head(b) THEN 1
    ELSE cmp(Tail(a), Tail(b))

\* str.split(sep), scanning s with the components found so far in done and
\* the one being read in cur: always at least one component, empty ones kept.
RECURSIVE split_from(_, _, _, _)
split_from(s, sep, done, cur) ==
    IF s = <<>> THEN Append(done, cur)
    ELSE IF Head(s) = sep THEN split_from(Tail(s), sep, Append(done, cur), <<>>)
    ELSE split_from(Tail(s), sep, done, Append(cur, Head(s)))

split(s, sep) == split_from(s, sep, <<>>, <<>>)

\* sep.join(comps)
RECURSIVE join(_, _)
join(sep, comps) ==
    IF comps = <<>> THEN <<>>
    ELSE IF Len(comps) = 1 THEN comps[1]
    ELSE comps[1] \o <<sep>> \o join(sep, Tail(comps))

\* The place of s[j] in the sorted list: after every smaller element and,
\* the sort being stable, after every equal element that came before it.
rank(s, j) ==
    1 + Cardinality({k \in DOMAIN s :
            \/ cmp(s[k], s[j]) < 0
            \/ cmp(s[k], s[j]) = 0 /\ k < j})

\* A sort that was left out: the iteration order is returned as it came.
sorted_Unsorted(s) == s

\* sorted(iterable) over str elements, the iterable given in iteration order.
sorted(s) == [i \in DOMAIN s |-> s[CHOOSE j \in DOMAIN s : rank(s, j) = i]]

---------------------------------------------------------------------------
\* The fleet, the versions and the pki directory

AgentNames ==
    << Str(<<"x", "y">>), Str(<<"x">>), Str(<<"y">>), Str(<<"z">>) >>

Agents == {AgentNames[i] : i \in 1..MaxAgents}

AuditNames ==
    << Str(<<"x">>), Str(<<"y">>), Str(<<"z">>), Str(<<"x", "y">>) >>

AuditAgents == {AuditNames[i] : i \in 1..MaxAuditAgents}

V2016 == Str(<<"2","0","1","6",".","3",".","0">>)
V2015 == Str(<<"2","0","1","5",".","8",".","0">>)
V2016Git == Str(<<"2","0","1","6",".","3",".","0","-","9","9","-","a","b","c">>)
V2014_7 == Str(<<"2","0","1","4",".","7",".","0">>)
V2014_10 == Str(<<"2","0","1","4",".","1","0",".","0">>)
V2014Two == Str(<<"2","0","1","4",".","7",".","0","-","5">>)
V2014Four == Str(<<"2","0","1","4",".","7",".","0","-","5","-","g","-","x">>)
V2014Git == Str(<<"2","0","1","4",".","7",".","0","-","5","-","g","a">>)

\* The versions the minions of the fleet specification run.
FleetReport == [a \in Agents |-> IF a = AgentNames[1] THEN V2014_7 ELSE V2014_10]

\* Version strings a minion may report to test.version.
VersionStrings == {V2016, V2015, V2016Git, V2014_10, V2014Two, V2014Four}

\* Values of salt.__version__.
MasterVersions == {V2016, V2014_7, V2014Git}

\* Files of the pki directory tree: the master's own key in the root and one
\* accepted key per minion under minions/.
master_pem == [root |-> "pki", fn |-> Str(<<"m","a","s","t","e","r",".","p","e","m">>)]

key_file(minion) == [root |-> "pki/minions", fn |-> minion]

AllFiles == {master_pem} \cup {key_file(a) : a \in Agents}

VARIABLES
    master_version, \* salt.__version__
    pki,            \* the files present under __opts__['pki_dir']
    version,        \* the version string each running minion reports
    phase,          \* key rotation state of the master
    walk,           \* key_regen: the files os.walk yields, in order
    idx,            \* key_regen: how many of them the loop has been through
    failed,         \* the files whose deletion failed in the last call
    op,             \* the runner function called last
    output,         \* status: its output argument
    removekeys,     \* down: its removekeys argument
    again,          \* status was called twice in a row, with the same minions
                    \* answering and the same keys accepted
    cmds,           \* the client.cmd calls of the last call
    reply,          \* status, versions: what client.cmd returned (the dict minions)
    keys,           \* status: keys['minions']
    locals,         \* versions: master_version and each minion's minion_version
    deletes,        \* down: the minions handed to salt-key -qyd, in order
    out,            \* what the last call displayed or printed, in order
    ret             \* what the last call returned

vars ==
    << master_version, version, pki, phase, walk, idx, failed, op, output,
       removekeys, again, cmds, reply, keys, locals, deletes, out, ret >>

---------------------------------------------------------------------------
\* The collaborators

\* salt.key.Key(__opts__).list_keys()['minions']: the accepted minion keys.
list_keys(store) == {f.fn : f \in {g \in store : g.root = "pki/minions"}}

\* salt-key -qyd minion: exit status 0 and the key gone, or non-zero and the
\* store as it was.
salt_key_delete(store, minion, rc) ==
    IF rc = 0 THEN store \ {key_file(minion)} ELSE store

\* os.remove(path): the file gone, or os.error raised and the file still there.
os_remove(store, path, ok) == IF ok THEN store \ {path} ELSE store

\* client.cmd('*', fun, timeout=...) as the call is written in the source.
cmd_call(fun, timeout) == [tgt |-> "*", fun |-> fun, timeout |-> timeout]

---------------------------------------------------------------------------
\* status

\* set(keys['minions']) - set(minions)
down_set(registered, minions) == registered \ DOMAIN minions

\* ret['up'] and ret['down'], from the iteration orders of the dict and the set.
status_ret(minions_iter, down_iter) ==
    [k \in {"up", "down"} |->
        IF k = "up" THEN sorted(minions_iter) ELSE sorted(down_iter)]

\* The probe of status with the timeout argument left out.
status_cmd_NoTimeout == cmd_call("test.ping", "default")

\* client.cmd('*', 'test.ping', timeout=__opts__['timeout'])
status_cmd == cmd_call("test.ping", "__opts__['timeout']")

\* salt.output.display_output(ret, '', __opts__) when output is set; up and
\* down call status(output=False), which displays nothing.
status_display(o, r) == IF o THEN << [kind |-> "ret", val |-> r] >> ELSE <<>>

---------------------------------------------------------------------------
\* down and up

\* Each list entry displayed on its own.
display_each(lst) == [i \in DOMAIN lst |-> [kind |-> "minion", val |-> lst[i]]]

\* The loop of down leaves at the first salt-key call that fails.
RECURSIVE down_calls_StopOnFailure(_, _, _)
down_calls_StopOnFailure(lst, rk, rc) ==
    IF ~rk \/ lst = <<>> THEN <<>>
    ELSE IF rc[Head(lst)] # 0 THEN <<Head(lst)>>
    ELSE <<Head(lst)>> \o down_calls_StopOnFailure(Tail(lst), rk, rc)

\* The loop of down with removekeys ignored: keys are always removed.
down_calls_Always(lst, rk, rc) == lst

\* The minions down hands to subprocess.call(["salt-key", "-qyd", minion]);
\* the exit status rc of a call is not looked at.
down_calls(lst, rk, rc) == IF rk THEN lst ELSE <<>>

\* The minions down displays.
down_display(lst, rk) == IF rk THEN <<>> ELSE display_each(lst)

\* The store after the salt-key calls, each with its exit status.
RECURSIVE after_deletes(_, _, _)
after_deletes(store, calls, rc) ==
    IF calls = <<>> THEN store
    ELSE after_deletes(salt_key_delete(store, Head(calls), rc[Head(calls)]),
                       Tail(calls), rc)

---------------------------------------------------------------------------
\* versions

labels ==
    (-1 :> "Minion requires update") @@ (0 :> "Up to date") @@
    (1 :> "Minion newer than master")

\* Every component from the third on is dropped, not only a third and last.
normalize_AtLeastThree(v) ==
    LET comps == split(v, Ord["-"])
    IN  IF Len(comps) >= 3 THEN join(Ord["-"], SubSeq(comps, 1, 2)) ELSE v

\* Only the first component is kept.
normalize_FirstOnly(v) ==
    LET comps == split(v, Ord["-"])
    IN  IF Len(comps) = 3 THEN join(Ord["-"], SubSeq(comps, 1, 1)) ELSE v

\* master_version from salt.__version__
normalize_master(v) ==
    LET comps == split(v, Ord["-"])
    IN  IF Len(comps) = 3 THEN join(Ord["-"], SubSeq(comps, 1, 2)) ELSE v

\* minion_version from minions[minion]
normalize_minion(v) ==
    LET comps == split(v, Ord["-"])
    IN  IF Len(comps) = 3 THEN join(Ord["-"], SubSeq(comps, 1, 2)) ELSE v

\* ver_diff = cmp(minion_version, master_version)
ver_diff(minion_version, master_v) == cmp(minion_version, master_v)

\* version_status after the loop over minions, iterated in the order given;
\* diff gives the ver_diff of each minion.
version_status(diff, order) ==
    [k \in {diff[order[i]] : i \in DOMAIN order} |->
        SelectSeq(order, LAMBDA m : diff[m] = k)]

\* The key of version_status that a label of ret stands for.
key_of ==
    ("Minion requires update" :> -1) @@ ("Up to date" :> 0) @@
    ("Minion newer than master" :> 1)

\* The buckets are filled in the order the replies were iterated.
versions_ret_Unsorted(vs) ==
    [l \in {labels[k] : k \in DOMAIN vs} |-> vs[key_of[l]]]

\* ret: each list of version_status sorted under its label.
versions_ret(vs) ==
    [l \in {labels[k] : k \in DOMAIN vs} |-> sorted(vs[key_of[l]])]

versions_cmd == cmd_call("test.version", "__opts__['timeout']")

---------------------------------------------------------------------------
\* key_regen

\* No timeout argument is given: LocalClient's own default applies.
key_regen_cmd == cmd_call("saltutil.regen_keys", "default")

\* The orders in which os.walk(pki_dir) can yield the files: top-down, the
\* root's files before those of minions/, each directory in listing order.
walk_orders(store) ==
    LET top == {f \in store : f.root = "pki"}
        sub == {f \in store : f.root = "pki/minions"}
    IN  {a \o b : a \in Perms(top), b \in Perms(sub)}

\* os.error is not caught: the first failed deletion ends the call.
after_remove_Raise(ok) == IF ok THEN "RevocationBroadcast" ELSE "Raised"

\* try: os.remove(path) / except os.error: pass -- the loop goes on.
after_remove(ok) == "RevocationBroadcast"

\* The message is printed without waiting for the loop.
may_print_Early == phase \in {"RevocationBroadcast", "LocalCredentialsPurged"}

\* print(msg) comes after both loops.
may_print == phase = "LocalCredentialsPurged"

\* os.remove runs inside the walk, after client.cmd has returned.
may_remove == phase = "RevocationBroadcast" /\ idx < Len(walk)

restart_msg == [kind |-> "msg", val |-> "Restart the Salt Master within the next 60 seconds!!!"]

---------------------------------------------------------------------------
\* The calls

\* One runner call at a time: no other function runs while key_regen is
\* between its broadcast and its message.
Idle == phase \in {"Stable", "AwaitingOperatorRestart"}

\* What client.cmd('*', 'test.ping') returns when the minions of S answer
\* within the timeout: True from each of them.
pings(S) == [a \in S |-> TRUE]

Called(name, o, rk) ==
    /\ op' = name
    /\ output' = o
    /\ removekeys' = rk
    /\ again' = (name = "status" /\ op = name /\ reply' = reply /\ keys' = keys)

NoWalk == walk' = <<>> /\ idx' = 0

\* status(output)
Status(o) ==
    /\ Idle
    /\ cmds' = <<status_cmd>>
    /\ keys' = list_keys(pki)
    /\ \E S \in SUBSET Agents :
       \E minions_iter \in Perms(S) :
       \E down_iter \in Perms(down_set(list_keys(pki), pings(S))) :
            /\ reply' = pings(S)
            /\ ret' = status_ret(minions_iter, down_iter)
            /\ out' = status_display(o, ret')
    /\ deletes' = <<>>
    /\ failed' = {}
    /\ locals' = <<>>
    /\ NoWalk
    /\ Called("status", o, FALSE)
    /\ UNCHANGED <<master_version, version, pki, phase>>

\* up()
Up ==
    /\ Idle
    /\ cmds' = <<status_cmd>>
    /\ keys' = list_keys(pki)
    /\ \E S \in SUBSET Agents :
       \E minions_iter \in Perms(S) :
       \E down_iter \in Perms(down_set(list_keys(pki), pings(S))) :
            /\ reply' = pings(S)
            /\ ret' = status_ret(minions_iter, down_iter)["up"]
            /\ out' = display_each(ret')
    /\ deletes' = <<>>
    /\ failed' = {}
    /\ locals' = <<>>
    /\ NoWalk
    /\ Called("up", FALSE, FALSE)
    /\ UNCHANGED <<master_version, version, pki, phase>>

\* down(removekeys); rc is the exit status of each salt-key call.
Down(rk) ==
    /\ Idle
    /\ cmds' = <<status_cmd>>
    /\ keys' = list_keys(pki)
    /\ \E S \in SUBSET Agents :
       \E minions_iter \in Perms(S) :
       \E down_iter \in Perms(down_set(list_keys(pki), pings(S))) :
       \E rc \in [down_set(list_keys(pki), pings(S)) -> IF rk THEN {0, 1} ELSE {0}] :
            /\ reply' = pings(S)
            /\ ret' = status_ret(minions_iter, down_iter)["down"]
            /\ deletes' = down_calls(ret', rk, rc)
            /\ out' = down_display(ret', rk)
            /\ pki' = after_deletes(pki, deletes', rc)
            /\ failed' = {key_file(m) : m \in {n \in ToSet(deletes') : rc[n] # 0}}
    /\ locals' = <<>>
    /\ NoWalk
    /\ Called("down", FALSE, rk)
    /\ UNCHANGED <<master_version, version, phase>>

\* versions(), the minions of one of the sets in Rs answering.
Versions(Rs) ==
    /\ Idle
    /\ cmds' = <<versions_cmd>>
    /\ \E S \in Rs :
       \E order \in Perms(S) :
            /\ reply' = [m \in S |-> version[m]]
            /\ locals' = [master_version |-> normalize_master(master_version),
                          minion_version |->
                              [m \in S |-> normalize_minion(reply'[m])]]
            /\ \E diff \in {[m \in S |-> ver_diff(locals'.minion_version[m],
                                                   locals'.master_version)]} :
               \E vs \in {version_status(diff, order)} :
                    ret' = versions_ret(vs)
            /\ out' = << [kind |-> "ret", val |-> ret'] >>
    /\ keys' = {}
    /\ deletes' = <<>>
    /\ failed' = {}
    /\ NoWalk
    /\ Called("versions", FALSE, FALSE)
    /\ UNCHANGED <<master_version, version, pki, phase>>

\* key_regen(), up to the return of client.cmd('*', 'saltutil.regen_keys');
\* what it returns is assigned and never read.
KeyRegenBroadcast ==
    /\ Idle
    /\ cmds' = <<key_regen_cmd>>
    /\ reply' = <<>>
    /\ phase' = "RevocationBroadcast"
    /\ walk' \in walk_orders(pki)
    /\ idx' = 0
    /\ keys' = {}
    /\ deletes' = <<>>
    /\ failed' = {}
    /\ locals' = <<>>
    /\ out' = <<>>
    /\ ret' = "None"
    /\ Called("key_regen", FALSE, FALSE)
    /\ UNCHANGED <<master_version, version, pki>>

\* key_regen(): one turn of the loop, os.remove(path) succeeding or not.
KeyRegenRemove ==
    /\ may_remove
    /\ \E ok \in BOOLEAN :
            /\ pki' = os_remove(pki, walk[idx + 1], ok)
            /\ failed' = IF ok THEN failed ELSE failed \cup {walk[idx + 1]}
            /\ phase' = after_remove(ok)
    /\ idx' = idx + 1
    /\ UNCHANGED <<master_version, version, walk, op, output, removekeys,
                   again, cmds, reply, keys, locals, deletes, out, ret>>

\* key_regen(): os.walk is exhausted.
KeyRegenPurged ==
    /\ phase = "RevocationBroadcast"
    /\ idx = Len(walk)
    /\ phase' = "LocalCredentialsPurged"
    /\ UNCHANGED <<master_version, version, pki, walk, idx, failed, op, output,
                   removekeys, again, cmds, reply, keys, locals,
                   deletes, out, ret>>

\* key_regen(): print(msg) and return.
KeyRegenPrint ==
    /\ may_print
    /\ out' = Append(out, restart_msg)
    /\ phase' = "AwaitingOperatorRestart"
    /\ UNCHANGED <<master_version, version, pki, walk, idx, failed, op, output,
                   removekeys, again, cmds, reply, keys, locals,
                   deletes, ret>>

NothingCalled ==
    /\ phase = "Stable"
    /\ walk = <<>>
    /\ idx = 0
    /\ failed = {}
    /\ op = "none"
    /\ output = FALSE
    /\ removekeys = FALSE
    /\ again = FALSE
    /\ cmds = <<>>
    /\ reply = <<>>
    /\ keys = {}
    /\ locals = <<>>
    /\ deletes = <<>>
    /\ out = <<>>
    /\ ret = "None"

\* The master of an installation with some of the minions accepted and some
\* of them answering.
Init ==
    /\ master_version = V2014_7
    /\ version = FleetReport
    /\ \E registered \in SUBSET Agents :
            pki = {master_pem} \cup {key_file(a) : a \in registered}
    /\ NothingCalled

Next ==
    \/ \E o \in BOOLEAN : Status(o)
    \/ Up
    \/ \E rk \in BOOLEAN : Down(rk)
    \/ Versions(SUBSET Agents)
    \/ KeyRegenBroadcast
    \/ KeyRegenRemove
    \/ KeyRegenPurged
    \/ KeyRegenPrint

Spec == Init /\ [][Next]_vars

\* The version audit alone, over every master version and every reported
\* version, each running minion answering.
InitVersions ==
    /\ master_version \in MasterVersions
    /\ \E S \in SUBSET AuditAgents : version \in [S -> VersionStrings]
    /\ pki = AllFiles
    /\ NothingCalled

NextVersions == Versions({DOMAIN version})

SpecVersions == InitVersions /\ [][NextVersions]_vars

---------------------------------------------------------------------------
\* What the properties are stated with

\* a is lexicographically smaller than b: at the first place where they
\* differ a has the smaller byte, or a ends there and b goes on.
LexLess(a, b) ==
    \E n \in 1..(Len(a) + 1) :
        /\ n <= Len(b)
        /\ \A i \in 1..(n - 1) : a[i] = b[i]
        /\ n = Len(a) + 1 \/ a[n] < b[n]

\* lst lists the elements of S, each once, in lexicographic order.
IsSortedList(lst, S) ==
    /\ Len(lst) = Cardinality(S)
    /\ ToSet(lst) = S
    /\ \A i \in 1..(Len(lst) - 1) : LexLess(lst[i], lst[i + 1])

\* v without its third dash-separated segment when it has exactly three:
\* the text before the second of exactly two dashes.
DropThirdOfThree(v) ==
    LET dashes == {i \in DOMAIN v : v[i] = Ord["-"]}
    IN  IF Cardinality(dashes) = 2
        THEN SubSeq(v, 1, (CHOOSE i \in dashes : \A j \in dashes : j <= i) - 1)
        ELSE v

IsNumber(c) == c # <<>> /\ \A i \in DOMAIN c : c[i] \in Ord["0"]..Ord["9"]

RECURSIVE Number(_)
Number(c) ==
    IF c = <<>> THEN 0 ELSE 10 * Number(SubSeq(c, 1, Len(c) - 1)) + (c[Len(c)] - Ord["0"])

\* Numeric-aware comparison of two lists of dot-separated components.
RECURSIVE CompsCmp(_, _)
CompsCmp(a, b) ==
    IF a = <<>> /\ b = <<>> THEN 0
    ELSE IF a = <<>> THEN -1
    ELSE IF b = <<>> THEN 1
    ELSE LET one == IF IsNumber(a[1]) /\ IsNumber(b[1])
                    THEN (IF Number(a[1]) < Number(b[1]) THEN -1
                          ELSE IF Number(a[1]) > Number(b[1]) THEN 1 ELSE 0)
                    ELSE cmp(a[1], b[1])
         IN  IF one # 0 THEN one ELSE CompsCmp(Tail(a), Tail(b))

SemverCmp(a, b) == CompsCmp(split(a, Ord["."]), split(b, Ord["."]))

\* The minions listed in some bucket of a versions() result.
Bucketed(r) == UNION {ToSet(r[l]) : l \in DOMAIN r}

Printed(o) == \E i \in DOMAIN o : o[i].kind = "msg"

X == AuditNames[1]
Y == AuditNames[2]
Z == AuditNames[3]

Scenario ==
    /\ op = "versions"
    /\ master_version = V2016
    /\ DOMAIN reply = {X, Y, Z}
    /\ reply[X] = V2016
    /\ reply[Y] = V2015
    /\ reply[Z] = V2016Git

---------------------------------------------------------------------------
\* The properties

\* C1: status() returns up = the responders in lexicographic order and
\* down = the registered minions that did not respond, in lexicographic
\* order; up and down are disjoint, and a responder that is not registered
\* is in up and not in down.
C1_StatusPartition ==
    op = "status" =>
        /\ keys = list_keys(pki)
        /\ IsSortedList(ret["up"], DOMAIN reply)
        /\ IsSortedList(ret["down"], keys \ DOMAIN reply)
        /\ ToSet(ret["up"]) \cap ToSet(ret["down"]) = {}
        /\ \A a \in DOMAIN reply \ keys :
                a \in ToSet(ret["up"]) /\ a \notin ToSet(ret["down"])

\* A status() with an unregistered responder up and a registered minion down.
C1_Witness ==
    /\ op = "status"
    /\ DOMAIN reply \ keys # {}
    /\ ret["up"] # <<>>
    /\ ret["down"] # <<>>

\* C2: key_regen() never raises on a failed deletion; once its loop is over
\* it has tried every file of the walk exactly once, every file is gone but
\* those whose deletion failed, and the message is printed before it returns
\* -- with an empty directory as well.
C2_PurgeResilient ==
    /\ phase # "Raised"
    /\ op = "key_regen" =>
        /\ Cardinality(ToSet(walk)) = Len(walk)
        /\ failed \subseteq {walk[i] : i \in 1..idx}
        /\ \A i \in 1..idx : walk[i] \in pki <=> walk[i] \in failed
        /\ \A i \in (idx + 1)..Len(walk) : walk[i] \in pki
        /\ pki \subseteq ToSet(walk)
        /\ phase \in {"LocalCredentialsPurged", "AwaitingOperatorRestart"} =>
                idx = Len(walk) /\ pki = failed
        /\ phase = "AwaitingOperatorRestart" => out = <<restart_msg>>

\* key_regen() has returned after a failed deletion that was not the last.
C2_Witness ==
    /\ op = "key_regen"
    /\ phase = "AwaitingOperatorRestart"
    /\ Len(walk) >= 2
    /\ walk[1] \in failed
    /\ walk[Len(walk)] \notin pki
    /\ Printed(out)

\* C3: key_regen() moves only forward, Stable -> RevocationBroadcast ->
\* LocalCredentialsPurged -> AwaitingOperatorRestart: it deletes files only
\* after its one broadcast has returned, prints only after the loop is over,
\* never goes back to Stable, never broadcasts again and never restores a
\* file; AwaitingOperatorRestart is left only by a new call of key_regen.
C3_ForwardOnly ==
    [][ /\ phase' # phase =>
            <<phase, phase'>> \in
                { <<"Stable", "RevocationBroadcast">>,
                  <<"RevocationBroadcast", "LocalCredentialsPurged">>,
                  <<"LocalCredentialsPurged", "AwaitingOperatorRestart">>,
                  <<"AwaitingOperatorRestart", "RevocationBroadcast">> }
        /\ phase = "AwaitingOperatorRestart" /\ phase' # phase =>
            op' = "key_regen" /\ idx' = 0 /\ pki' = pki /\ ~Printed(out')
        /\ pki' \subseteq pki
        /\ pki' # pki /\ op' = "key_regen" =>
            /\ phase = "RevocationBroadcast"
            /\ phase' = "RevocationBroadcast"
            /\ cmds = <<key_regen_cmd>>
        /\ op' = "key_regen" /\ Printed(out') /\ ~Printed(out) =>
            /\ phase = "LocalCredentialsPurged"
            /\ idx = Len(walk)
            /\ phase' = "AwaitingOperatorRestart"
        /\ op' = "key_regen" => cmds' = <<key_regen_cmd>>
        /\ phase \notin {"Stable", "AwaitingOperatorRestart"} =>
            op' = op /\ cmds' = cmds
      ]_vars

\* key_regen() has gone through all four states and purged two files or more.
C3_Witness ==
    /\ op = "key_regen"
    /\ phase = "AwaitingOperatorRestart"
    /\ Len(walk) >= 2
    /\ pki = {}

\* C4: down(removekeys=True) hands to salt-key each minion of the down set
\* once, in sorted order, and no other minion, displays none of them, goes
\* on after a salt-key call that fails, and returns the whole down set.
C4_DownRemoveKeys ==
    op = "down" /\ removekeys =>
        /\ IsSortedList(deletes, keys \ DOMAIN reply)
        /\ ret = deletes
        /\ out = <<>>
        /\ failed \subseteq {key_file(m) : m \in ToSet(deletes)}
        /\ \A m \in ToSet(deletes) : key_file(m) \in pki <=> key_file(m) \in failed

\* The first salt-key call failed and the second one removed its key.
C4_Witness ==
    /\ op = "down"
    /\ removekeys
    /\ Len(deletes) >= 2
    /\ key_file(deletes[1]) \in failed
    /\ key_file(deletes[2]) \notin pki

\* C5: versions() puts each responder under the label that the numeric-aware
\* comparison of its normalized version with the master's gives: a larger
\* numeric component (2014.10.0 against 2014.7.0) is newer.
C5_NumericAwareOrdering ==
    op = "versions" =>
        \A m \in DOMAIN reply :
            LET l == labels[SemverCmp(DropThirdOfThree(reply[m]),
                                      DropThirdOfThree(master_version))]
            IN  l \in DOMAIN ret /\ m \in ToSet(ret[l])

\* C6, as claimed: in the scenario x and z are up to date and y requires an
\* update.
C6_ScenarioAsClaimed ==
    Scenario =>
        /\ DOMAIN ret = {"Up to date", "Minion requires update"}
        /\ ret["Up to date"] = <<X, Z>>
        /\ ret["Minion requires update"] = <<Y>>

\* C6, amended: in the scenario z's version is compared as "2016.3.0-99",
\* x is up to date, y requires an update and z is newer than the master.
C6_ScenarioAmended ==
    Scenario =>
        /\ locals.master_version = V2016
        /\ locals.minion_version[Z] = Str(<<"2","0","1","6",".","3",".","0","-","9","9">>)
        /\ DOMAIN ret =
            {"Up to date", "Minion requires update", "Minion newer than master"}
        /\ ret["Up to date"] = <<X>>
        /\ ret["Minion requires update"] = <<Y>>
        /\ ret["Minion newer than master"] = <<Z>>

\* versions() has returned in the scenario.
C6_Witness == Scenario /\ DOMAIN ret # {}

\* C7: versions() compares the master's version and every minion's version
\* after the same normalization: "A-B-C" becomes "A-B", a string of any other
\* number of dash-separated segments is left as it is.
C7_Normalization ==
    op = "versions" =>
        /\ locals.master_version = DropThirdOfThree(master_version)
        /\ \A m \in DOMAIN reply :
                locals.minion_version[m] = DropThirdOfThree(reply[m])

\* A master with three segments has audited minions with one, two, three and
\* four segments among them.
C7_Witness ==
    /\ op = "versions"
    /\ master_version = V2014Git
    /\ {V2016Git, V2014Four} \subseteq {reply[m] : m \in DOMAIN reply}
    /\ {reply[m] : m \in DOMAIN reply} \cap {V2014Two, V2016, V2015} # {}

\* C8: versions() lists every responder in exactly one bucket and nobody
\* else, returns no empty bucket, and each bucket is in lexicographic order.
C8_Bucketing ==
    op = "versions" =>
        /\ DOMAIN ret \subseteq {labels[k] : k \in DOMAIN labels}
        /\ Bucketed(ret) = DOMAIN reply
        /\ \A l \in DOMAIN ret :
                /\ ret[l] # <<>>
                /\ \A i \in 1..(Len(ret[l]) - 1) : LexLess(ret[l][i], ret[l][i + 1])
        /\ \A m \in DOMAIN reply :
                Cardinality({l \in DOMAIN ret : m \in ToSet(ret[l])}) = 1

\* Two buckets of three are filled, one of them with two minions.
C8_Witness ==
    /\ op = "versions"
    /\ Cardinality(DOMAIN ret) = 2
    /\ \E l \in DOMAIN ret : Len(ret[l]) >= 2

\* C9, as claimed: every client.cmd call of status(), versions() and
\* key_regen() is given the configured timeout.
C9_EveryBroadcastWithTimeout ==
    \A i \in DOMAIN cmds : cmds[i].timeout = "__opts__['timeout']"

\* C9, amended: each call makes one client.cmd call; the test.ping of
\* status(), up() and down() and the test.version of versions() are given
\* the configured timeout, the saltutil.regen_keys of key_regen() is given
\* no timeout.
C9_ProbesWithTimeout ==
    op # "none" =>
        /\ Len(cmds) = 1
        /\ cmds[1].tgt = "*"
        /\ op \in {"status", "up", "down"} =>
                cmds[1].fun = "test.ping" /\ cmds[1].timeout = "__opts__['timeout']"
        /\ op = "versions" =>
                cmds[1].fun = "test.version" /\ cmds[1].timeout = "__opts__['timeout']"
        /\ op = "key_regen" =>
                cmds[1].fun = "saltutil.regen_keys" /\ cmds[1].timeout = "default"

\* key_regen() has sent its broadcast and is deleting files.
C9_Witness ==
    /\ op = "key_regen"
    /\ phase = "RevocationBroadcast"
    /\ idx >= 1
    /\ Len(cmds) = 1

\* key_regen() on an empty pki directory has printed its message.
EmptyDirectoryRotated ==
    /\ op = "key_regen"
    /\ phase = "AwaitingOperatorRestart"
    /\ walk = <<>>
    /\ Printed(out)

\* C10: the pki directory changes only in key_regen() and in
\* down(removekeys=True), and only by losing files; status(), up(),
\* down(removekeys=False) and versions() leave it as it is, and a second
\* status() with the same responders and the same keys returns the same.
C10_Frame ==
    [][ /\ pki' # pki =>
            /\ pki' \subseteq pki
            /\ op' = "key_regen" \/ (op' = "down" /\ removekeys')
        /\ list_keys(pki') # list_keys(pki) =>
            op' = "key_regen" \/ (op' = "down" /\ removekeys')
        /\ op = "status" /\ op' = "status" /\ reply' = reply /\ keys' = keys =>
            ret' = ret
      ]_vars

\* status() was called twice in a row on the same fleet and the same store.
C10_Witness ==
    /\ again
    /\ op = "status"
    /\ Len(ret["up"]) >= 1
    /\ Len(ret["down"]) >= 1

====
